---- MODULE Spec2Model ----
(***************************************************************************)
(* A model of the S-57 parser (src/src/python/s57_parser.py): the geometry *)
(* translator, the feature collection builder (S57Parser.parse) and the    *)
(* command-line entry point, run against a native spatial library whose    *)
(* answers (datasets, layers, features, geometries, failures) are chosen   *)
(* nondeterministically from bounded sets.                                 *)
(***************************************************************************)
EXTENDS Integers, Sequences, FiniteSets, TLC

VARIABLES
    pc,            \* position of the running call
    caller,        \* "none" | "main" | "parse" | "convert" | "transform"
    args,          \* the namespace parse_args returned (main only)
    options,       \* the options mapping handed to parse
    dataset,       \* the opened dataset: its layers as the library reports them
    layers,        \* parse's list of layer information (extract_layers' result)
    li,            \* index of the layer parse is at (1-based)
    features,      \* extract_features' local list for the layer being iterated
    all_features,  \* parse's output list
    calls,         \* every native dataset/layer call so far, in order
    yielded,       \* per layer, the native features GetNextFeature yielded
    exhausted,     \* per layer, how many times GetNextFeature returned no feature
    xlate,         \* every geometry translation so far (input, outcome), in order
    exc,           \* the exception in flight or caught
    result,        \* what the call under test returned or raised
    stdout,        \* the documents printed on standard output
    written,       \* the documents written to the output file
    exit_code,     \* the process exit code: << >> while running, then <<code>>
    prior,         \* how each earlier parse call on this parser instance ended
    inst           \* the GDALInstaller instance and the record of its run

vars == <<pc, caller, args, options, dataset, layers, li, features, all_features,
          calls, yielded, exhausted, xlate, exc, result, stdout, written, exit_code,
          prior, inst>>

-----------------------------------------------------------------------------
(* Bounds of the model *)

\* most layers a dataset holds
MaxLayers == 2
\* most features the layers of one dataset yield in total
MaxFeatures == 2
\* most vertices of a line or ring
MaxPts == 2
\* most rings of a polygon and most members of a multi-part geometry
MaxParts == 2
\* Earlier parse calls made on one parser instance.
MaxCalls == 1
\* Features the layers of a dataset yield in total in a repeated parse call.
MaxRepeatFeatures == 1

-----------------------------------------------------------------------------
(* The native library's geometry type tags (osgeo.ogr) *)

wkbUnknown == 0
wkbPoint == 1
wkbLineString == 2
wkbPolygon == 3
wkbMultiPoint == 4
wkbMultiLineString == 5
wkbMultiPolygon == 6
wkbGeometryCollection == 7
wkbPoint25D == -2147483647
wkbLineString25D == -2147483646
wkbPolygon25D == -2147483645
wkbMultiPoint25D == -2147483644
wkbMultiLineString25D == -2147483643
wkbMultiPolygon25D == -2147483642
wkbPointZM == 3001

SupportedTypes ==
    {wkbPoint, wkbPoint25D, wkbLineString, wkbLineString25D,
     wkbPolygon, wkbPolygon25D, wkbMultiPoint, wkbMultiPoint25D,
     wkbMultiLineString, wkbMultiLineString25D,
     wkbMultiPolygon, wkbMultiPolygon25D}

UnsupportedTypes == {wkbUnknown, wkbGeometryCollection, wkbPointZM}

-----------------------------------------------------------------------------
(* Native geometry objects.                                                *)
(*   gtype  the type tag GetGeometryType returns                           *)
(*   srs    NoSrs when GetSpatialReference returns None, else the string   *)
(*          GetAuthorityCode(None) returns                                 *)
(*   fault  the native call on this object that raises ("none": no call)   *)
(*   pt     GetX/GetY/GetZ of a point                                      *)
(*   pts    GetPoint(0..GetPointCount-1) of a line or ring, (x, y, z) each *)
(*   parts  GetGeometryRef(0..GetGeometryCount-1)                          *)

NoSrs == "none"
WGS84Code == "4326"
UTM33Code == "32633"

FaultSites ==
    {"none", "GetSpatialReference", "GetAuthorityCode",
     "CoordinateTransformation", "Clone", "Transform",
     "GetGeometryType", "coords"}

Geom(t, s, f, p, ps, parts) ==
    [gtype |-> t, srs |-> s, fault |-> f, pt |-> p, pts |-> ps, parts |-> parts]

\* What the external library's Transform does to one coordinate tuple: the
\* reprojection itself is the library's; it moves every coordinate.
ReprojectPt(p) == <<p[1] + 100, p[2] + 200, p[3]>>

RECURSIVE Reproject(_)
Reproject(g) ==
    [g EXCEPT !.pt = ReprojectPt(g.pt),
              !.pts = [i \in 1..Len(g.pts) |-> ReprojectPt(g.pts[i])],
              !.parts = [i \in 1..Len(g.parts) |-> Reproject(g.parts[i])]]

\* A geometry call log entry: the method and the object it was called on.
GCall(m, ref) == <<m, ref>>

\* Outcome of a geometry routine: whether it raised, the object reference or
\* value it returned, the object heap afterwards and the native calls made.
GOut(raised, ref, value, heap, gcalls) ==
    [raised |-> raised, ref |-> ref, value |-> value, heap |-> heap,
     gcalls |-> gcalls]

NullRef == 0
NoneGeom == [type |-> "null", coordinates |-> << >>]

-----------------------------------------------------------------------------
(* S57Parser.transform_to_wgs84 *)

\* A variant that reprojects the caller's object in place, without Clone.
transform_no_clone(heap, ref) ==
    LET g == heap[ref]
        c1 == <<GCall("GetSpatialReference", ref)>>
        c2 == c1 \o <<GCall("GetAuthorityCode", ref)>>
        c3 == c2 \o <<GCall("CoordinateTransformation", ref)>>
        c4 == c3 \o <<GCall("Transform", ref)>>
    IN  IF g.fault = "GetSpatialReference" THEN GOut(TRUE, NullRef, NoneGeom, heap, c1)
        ELSE IF g.srs = NoSrs THEN GOut(FALSE, ref, NoneGeom, heap, c1)
        ELSE IF g.fault = "GetAuthorityCode" THEN GOut(TRUE, NullRef, NoneGeom, heap, c2)
        ELSE IF g.srs = WGS84Code THEN GOut(FALSE, ref, NoneGeom, heap, c2)
        ELSE IF g.fault = "CoordinateTransformation" THEN GOut(TRUE, NullRef, NoneGeom, heap, c3)
        ELSE IF g.fault = "Transform" THEN GOut(TRUE, NullRef, NoneGeom, heap, c4)
        ELSE GOut(FALSE, ref, NoneGeom, [heap EXCEPT ![ref] = Reproject(g)], c4)

\* A variant without the authority code check: every geometry that has a CRS
\* is cloned and reprojected.
transform_always(heap, ref) ==
    LET g == heap[ref]
        new == Len(heap) + 1
        c1 == <<GCall("GetSpatialReference", ref)>>
        c3 == c1 \o <<GCall("CoordinateTransformation", ref)>>
        c4 == c3 \o <<GCall("Clone", ref)>>
        c5 == c4 \o <<GCall("Transform", new)>>
        heap1 == Append(heap, g)
    IN  IF g.fault = "GetSpatialReference" THEN GOut(TRUE, NullRef, NoneGeom, heap, c1)
        ELSE IF g.srs = NoSrs THEN GOut(FALSE, ref, NoneGeom, heap, c1)
        ELSE IF g.fault = "CoordinateTransformation" THEN GOut(TRUE, NullRef, NoneGeom, heap, c3)
        ELSE IF g.fault = "Clone" THEN GOut(TRUE, NullRef, NoneGeom, heap, c4)
        ELSE IF g.fault = "Transform" THEN GOut(TRUE, NullRef, NoneGeom, heap1, c5)
        ELSE GOut(FALSE, new, NoneGeom, [heap1 EXCEPT ![new] = Reproject(g)], c5)

transform_to_wgs84(heap, ref) ==
    LET g == heap[ref]
        new == Len(heap) + 1
        c1 == <<GCall("GetSpatialReference", ref)>>
        c2 == c1 \o <<GCall("GetAuthorityCode", ref)>>
        c3 == c2 \o <<GCall("CoordinateTransformation", ref)>>
        c4 == c3 \o <<GCall("Clone", ref)>>
        c5 == c4 \o <<GCall("Transform", new)>>
        heap1 == Append(heap, g)
    IN  IF g.fault = "GetSpatialReference" THEN GOut(TRUE, NullRef, NoneGeom, heap, c1)
        ELSE IF g.srs = NoSrs THEN GOut(FALSE, ref, NoneGeom, heap, c1)
        ELSE IF g.fault = "GetAuthorityCode" THEN GOut(TRUE, NullRef, NoneGeom, heap, c2)
        ELSE IF g.srs = WGS84Code THEN GOut(FALSE, ref, NoneGeom, heap, c2)
        ELSE IF g.fault = "CoordinateTransformation" THEN GOut(TRUE, NullRef, NoneGeom, heap, c3)
        ELSE IF g.fault = "Clone" THEN GOut(TRUE, NullRef, NoneGeom, heap, c4)
        ELSE IF g.fault = "Transform" THEN GOut(TRUE, NullRef, NoneGeom, heap1, c5)
        ELSE GOut(FALSE, new, NoneGeom, [heap1 EXCEPT ![new] = Reproject(g)], c5)

-----------------------------------------------------------------------------
(* The per-type coordinate assembly routines *)

\* list(point)[:2]
Take2(p) == SubSeq(p, 1, IF Len(p) < 2 THEN Len(p) ELSE 2)

\* A variant that appends the Z accessor's value whatever the type tag.
_convert_point_always_z(g) ==
    [type |-> "Point", coordinates |-> <<g.pt[1], g.pt[2], g.pt[3]>>]

_convert_point(g) ==
    [type |-> "Point",
     coordinates |-> IF g.gtype = wkbPoint25D
                     THEN <<g.pt[1], g.pt[2], g.pt[3]>>
                     ELSE <<g.pt[1], g.pt[2]>>]

\* A variant that strips every vertex to X,Y, as the polygon routine does.
_convert_linestring_xy(g) ==
    [type |-> "LineString",
     coordinates |-> [i \in 1..Len(g.pts) |-> Take2(g.pts[i])]]

_convert_linestring(g) ==
    [type |-> "LineString",
     coordinates |-> [i \in 1..Len(g.pts) |-> g.pts[i]]]

\* A variant that keeps each vertex as the library returns it, Z included.
_convert_polygon_xyz(g) ==
    [type |-> "Polygon",
     coordinates |->
        [i \in 1..Len(g.parts) |->
            [j \in 1..Len(g.parts[i].pts) |-> g.parts[i].pts[j]]]]

_convert_polygon(g) ==
    [type |-> "Polygon",
     coordinates |->
        [i \in 1..Len(g.parts) |->
            [j \in 1..Len(g.parts[i].pts) |-> Take2(g.parts[i].pts[j])]]]

\* A variant that converts each member with the single-point routine.
_convert_multipoint_members(g) ==
    [type |-> "MultiPoint",
     coordinates |->
        [i \in 1..Len(g.parts) |-> _convert_point(g.parts[i]).coordinates]]

_convert_multipoint(g) ==
    [type |-> "MultiPoint",
     coordinates |->
        [i \in 1..Len(g.parts) |-> <<g.parts[i].pt[1], g.parts[i].pt[2]>>]]

_convert_multilinestring(g) ==
    [type |-> "MultiLineString",
     coordinates |->
        [i \in 1..Len(g.parts) |->
            [j \in 1..Len(g.parts[i].pts) |-> g.parts[i].pts[j]]]]

_convert_multipolygon(g) ==
    [type |-> "MultiPolygon",
     coordinates |->
        [i \in 1..Len(g.parts) |->
            [j \in 1..Len(g.parts[i].parts) |->
                [k \in 1..Len(g.parts[i].parts[j].pts) |->
                    Take2(g.parts[i].parts[j].pts[k])]]]]

-----------------------------------------------------------------------------
(* S57Parser.convert_geometry_to_geojson *)

\* The routine the type tag selects; Unsupported when none does.
Dispatch(g) ==
    IF g.gtype = wkbPoint \/ g.gtype = wkbPoint25D THEN _convert_point(g)
    ELSE IF g.gtype = wkbLineString \/ g.gtype = wkbLineString25D
        THEN _convert_linestring(g)
    ELSE IF g.gtype = wkbPolygon \/ g.gtype = wkbPolygon25D
        THEN _convert_polygon(g)
    ELSE IF g.gtype = wkbMultiPoint \/ g.gtype = wkbMultiPoint25D
        THEN _convert_multipoint(g)
    ELSE IF g.gtype = wkbMultiLineString \/ g.gtype = wkbMultiLineString25D
        THEN _convert_multilinestring(g)
    ELSE IF g.gtype = wkbMultiPolygon \/ g.gtype = wkbMultiPolygon25D
        THEN _convert_multipolygon(g)
    ELSE NoneGeom

\* The body of the try block: it may raise.
convert_try_body(heap, ref) ==
    IF ref = NullRef THEN GOut(FALSE, NullRef, NoneGeom, heap, << >>)
    ELSE
    LET t == transform_to_wgs84(heap, ref) IN
    IF t.raised THEN t
    ELSE
    LET g == t.heap[t.ref]
        c1 == t.gcalls \o <<GCall("GetGeometryType", t.ref)>>
        c2 == c1 \o <<GCall("coords", t.ref)>>
    IN  IF g.fault = "GetGeometryType" THEN GOut(TRUE, NullRef, NoneGeom, t.heap, c1)
        ELSE IF Dispatch(g) = NoneGeom THEN GOut(FALSE, t.ref, NoneGeom, t.heap, c1)
        ELSE IF g.fault = "coords" THEN GOut(TRUE, NullRef, NoneGeom, t.heap, c2)
        ELSE GOut(FALSE, t.ref, Dispatch(g), t.heap, c2)

\* A variant without the except clause: what is raised inside propagates.
convert_no_except(heap, ref) == convert_try_body(heap, ref)

\* A variant that raises on a type tag no routine handles, outside the try.
convert_raise_unsupported(heap, ref) ==
    LET r == convert_try_body(heap, ref) IN
    IF r.raised THEN [r EXCEPT !.raised = FALSE, !.value = NoneGeom]
    ELSE IF ref # NullRef /\ r.value = NoneGeom THEN [r EXCEPT !.raised = TRUE]
    ELSE r

convert_geometry_to_geojson(heap, ref) ==
    LET r == convert_try_body(heap, ref) IN
    IF r.raised THEN [r EXCEPT !.raised = FALSE, !.value = NoneGeom] ELSE r

-----------------------------------------------------------------------------
(* Field values, property mappings and native features *)

\* A field value: null (None), an integer or a string.
Null == [kind |-> "null", i |-> 0, s |-> ""]
IntV(n) == [kind |-> "int", i |-> n, s |-> ""]
StrV(str) == [kind |-> "str", i |-> 0, s |-> str]

Field(n, v) == [name |-> n, value |-> v]

\* A Python dict as a function from its keys; d[k] = v.
EmptyDict == [k \in {} |-> Null]
DictSet(d, k, v) == [x \in (DOMAIN d) \cup {k} |-> IF x = k THEN v ELSE d[x]]

\* An exception: its class and its message (a string cut into its parts).
Exc(t, m) == [type |-> t, msg |-> m]
NoExc == Exc("none", << >>)

\* A native feature.
\*   fid      GetFID
\*   fields   GetFieldDefnRef(i).GetName() and GetField(i), i = 0..GetFieldCount-1
\*   fault    the native call on this feature that raises ("none": no call)
\*   hasGeom  whether GetGeometry returns a geometry
\*   geom     that geometry
Feature(fid, fields, fault, hasGeom, geom) ==
    [fid |-> fid, fields |-> fields, fault |-> fault, hasGeom |-> hasGeom,
     geom |-> geom]

FeatureFaultSites == {"none", "GetFieldDefnRef", "GetField", "GetGeometry"}

-----------------------------------------------------------------------------
(* S57Parser.extract_feature_properties *)

RECURSIVE PropsFrom(_, _, _)
PropsFrom(f, i, props) ==
    IF i > Len(f.fields) THEN [raised |-> FALSE, exc |-> NoExc, value |-> props]
    ELSE IF f.fault = "GetFieldDefnRef"
        THEN [raised |-> TRUE, exc |-> Exc("RuntimeError", <<"GetFieldDefnRef">>),
              value |-> props]
    ELSE IF f.fault = "GetField"
        THEN [raised |-> TRUE, exc |-> Exc("RuntimeError", <<"GetField">>),
              value |-> props]
    ELSE IF f.fields[i].value # Null
        THEN PropsFrom(f, i + 1, DictSet(props, f.fields[i].name, f.fields[i].value))
    ELSE PropsFrom(f, i + 1, props)

\* A variant that tests the value's truth instead of comparing it with None:
\* 0 and the empty string are dropped as well.
RECURSIVE PropsTruthy(_, _, _)
PropsTruthy(f, i, props) ==
    IF i > Len(f.fields) THEN [raised |-> FALSE, exc |-> NoExc, value |-> props]
    ELSE IF f.fault \in {"GetFieldDefnRef", "GetField"}
        THEN [raised |-> TRUE, exc |-> Exc("RuntimeError", <<f.fault>>),
              value |-> props]
    ELSE IF f.fields[i].value \notin {Null, IntV(0), StrV("")}
        THEN PropsTruthy(f, i + 1, DictSet(props, f.fields[i].name, f.fields[i].value))
    ELSE PropsTruthy(f, i + 1, props)

extract_properties_truthy(f) == PropsTruthy(f, 1, EmptyDict)

extract_feature_properties(f) == PropsFrom(f, 1, EmptyDict)

-----------------------------------------------------------------------------
(* The body of extract_features' loop: one native feature to one dictionary *)

\* A record of one geometry translation: the routine, the object heap and the
\* reference it was given, and its outcome.
XRec(fn, heap, ref, out) == [fn |-> fn, heap |-> heap, ref |-> ref, out |-> out]

FeatureDict(id, geometry, properties) ==
    [id |-> id, geometry |-> geometry, properties |-> properties]

NoDict == FeatureDict(0, NoneGeom, EmptyDict)

ExtractOne(f) ==
    LET p == extract_feature_properties(f)
        c == convert_geometry_to_geojson(<<f.geom>>, 1)
    IN  IF p.raised
        THEN [raised |-> TRUE, exc |-> p.exc, dict |-> NoDict, xl |-> << >>]
        ELSE IF f.fault = "GetGeometry"
        THEN [raised |-> TRUE, exc |-> Exc("RuntimeError", <<"GetGeometry">>),
              dict |-> NoDict, xl |-> << >>]
        ELSE IF ~f.hasGeom
        THEN [raised |-> FALSE, exc |-> NoExc,
              dict |-> FeatureDict(f.fid, NoneGeom, p.value), xl |-> << >>]
        ELSE IF c.raised
        THEN [raised |-> TRUE, exc |-> Exc("RuntimeError", <<"geometry">>),
              dict |-> NoDict, xl |-> <<XRec("convert", <<f.geom>>, 1, c)>>]
        ELSE [raised |-> FALSE, exc |-> NoExc,
              dict |-> FeatureDict(f.fid, c.value, p.value),
              xl |-> <<XRec("convert", <<f.geom>>, 1, c)>>]

-----------------------------------------------------------------------------
(* parse's assembly of a layer's feature dictionaries (S57Feature.to_dict) *)

\* A variant that leaves out a native id of 0.
FeatureIdTruthy(layer_name, fid) ==
    IF fid = 0 THEN layer_name \o "." ELSE layer_name \o "." \o ToString(fid)

FeatureId(layer_name, fid) == layer_name \o "." \o ToString(fid)

to_dict(feature_id, geometry, properties) ==
    [type |-> "Feature", id |-> feature_id, geometry |-> geometry,
     properties |-> properties]

\* A variant that keeps a _featureType the feature already carries.
AssembleKeepOwn(layer_name, d) ==
    to_dict(FeatureId(layer_name, d.id), d.geometry,
            IF "_featureType" \in DOMAIN d.properties THEN d.properties
            ELSE DictSet(d.properties, "_featureType", StrV(layer_name)))

Assemble(layer_name, d) ==
    to_dict(FeatureId(layer_name, d.id), d.geometry,
            DictSet(d.properties, "_featureType", StrV(layer_name)))

AssembleAll(layer_name, ds) == [i \in 1..Len(ds) |-> Assemble(layer_name, ds[i])]

-----------------------------------------------------------------------------
(* The inputs: what callers pass and what the native library answers *)

LayerNames == {"DEPARE", "LIGHTS"}

\* What GetFeatureCount reports: unavailable (-1), zero, or a positive count.
ReportedCounts == {-1, 0, 3}

InputPath == "chart.000"
OutputPath == "out.json"
BBox == <<-3, 1, 2, 4>>

\* Values given for options['feature_types'].
FeatureTypeLists == {<< >>, <<"DEPARE">>, <<"DEPARE", "LIGHTS">>}

\* The options mapping with the given keys present.
MakeOptions(hasTypes, types, hasBbox, bbox) ==
    LET o1 == IF hasTypes THEN DictSet(EmptyDict, "feature_types", types)
              ELSE EmptyDict
    IN  IF hasBbox THEN DictSet(o1, "bbox", bbox) ELSE o1

\* Geometries the features of a parsed dataset carry.
PointNoCrs == Geom(wkbPoint, NoSrs, "none", <<-122, 47, 0>>, << >>, << >>)
CollectionWgs84 ==
    Geom(wkbGeometryCollection, WGS84Code, "none", <<0, 0, 0>>, << >>, << >>)
CorruptUtm == Geom(wkbPoint, UTM33Code, "GetGeometryType", <<5, 6, 0>>, << >>, << >>)
LineUtm ==
    Geom(wkbLineString25D, UTM33Code, "none", <<0, 0, 0>>,
         <<<<1, 2, 0>>, <<3, 4, 5>>>>, << >>)

DepthFields == <<Field("DRVAL1", IntV(0)), Field("DRVAL2", IntV(10))>>
MixedFields ==
    <<Field("OBJNAM", Null), Field("_featureType", StrV("X")),
      Field("INFORM", StrV(""))>>

\* The native features a layer may yield.
FeatureKinds ==
    {Feature(1, DepthFields, "none", TRUE, PointNoCrs),
     Feature(1, << >>, "none", FALSE, PointNoCrs),
     Feature(0, MixedFields, "none", TRUE, CollectionWgs84),
     Feature(2, DepthFields, "GetFieldDefnRef", TRUE, PointNoCrs),
     Feature(2, DepthFields, "GetGeometry", TRUE, PointNoCrs),
     Feature(3, << >>, "none", TRUE, CorruptUtm),
     Feature(3, DepthFields, "none", TRUE, LineUtm)}

\* A layer as the dataset reports it.
Layer(name, count) == [name |-> name, feature_count |-> count]

\* A dataset handle: "open" with its layers, or "None". fault: GetLayerCount raises.
Dataset(handle, ls, fault) == [handle |-> handle, layers |-> ls, fault |-> fault]
NoDataset == Dataset("None", << >>, FALSE)

\* The datasets OpenEx may return: every sequence of layer names up to
\* MaxLayers, the layers all reporting the same feature count.
Datasets ==
    UNION {{Dataset("open", [i \in 1..n |-> Layer(names[i], count)], FALSE) :
                names \in [1..n -> LayerNames], count \in ReportedCounts} :
           n \in 0..MaxLayers}
    \cup {Dataset("open", << >>, TRUE)}

NoArgs ==
    [input |-> "", output |-> "", feature_types |-> << >>, bbox |-> << >>,
     verbose |-> FALSE]

NoResult == [status |-> "none", features |-> << >>, exc |-> NoExc]
Returned(fs) == [status |-> "returned", features |-> fs, exc |-> NoExc]
Raised(e) == [status |-> "raised", features |-> << >>, exc |-> e]

\* A native dataset or layer call: the method, the layer's index (0: the
\* dataset or the library itself), the arguments and what came back ("" when
\* the model does not use it).
Call(op, layer, a, ret) == [op |-> op, layer |-> layer, args |-> a, ret |-> ret]

\* A GDALInstaller and the record of its run.
\*   auto, preferred   the constructor's arguments (preferred "": no method)
\*   methods           what get_installation_methods returned, in dict order
\*   existing          what check_existing_installation returned
\*   idx               the loop's position in methods
\*   success           run's local variable
\*   tried             every install_with_method call: position, method, result
\*   cmds              every command run through subprocess
\*   verified, ret     verify_installation's and run's results, << >> until set
NoInstaller ==
    [auto |-> FALSE, preferred |-> "", methods |-> << >>, existing |-> FALSE,
     idx |-> 0, success |-> FALSE, tried |-> << >>, cmds |-> << >>,
     verified |-> << >>, ret |-> << >>]

RECURSIVE SumLen(_, _)
SumLen(seqs, i) == IF i > Len(seqs) THEN 0 ELSE Len(seqs[i]) + SumLen(seqs, i + 1)

TotalYielded == SumLen(yielded, 1)

Init ==
    /\ pc = "idle"
    /\ caller = "none"
    /\ args = NoArgs
    /\ options = EmptyDict
    /\ dataset = NoDataset
    /\ layers = << >>
    /\ li = 0
    /\ features = << >>
    /\ all_features = << >>
    /\ calls = << >>
    /\ yielded = << >>
    /\ exhausted = << >>
    /\ xlate = << >>
    /\ exc = NoExc
    /\ result = NoResult
    /\ stdout = << >>
    /\ written = << >>
    /\ exit_code = << >>
    /\ prior = << >>
    /\ inst = NoInstaller

-----------------------------------------------------------------------------
(* S57Parser.open, S57Parser.extract_layers *)

OpenFailures == {"none", "raises"}

\* A variant without the None check: a None dataset is returned to the caller.
open_returns_none(outcome, file_path) ==
    IF outcome = "raises"
    THEN [raised |-> TRUE,
          exc |-> Exc("S57ParseError",
                      <<"Error opening file ", file_path, ": ", "Invalid format">>)]
    ELSE [raised |-> FALSE, exc |-> NoExc]

\* outcome: "dataset" (OpenEx returned one), "none" (it returned None),
\* "raises" (it raised, with the text "Invalid format").
open(outcome, file_path) ==
    LET prefix == <<"Error opening file ", file_path, ": ">> IN
    IF outcome = "raises"
    THEN [raised |-> TRUE,
          exc |-> Exc("S57ParseError", prefix \o <<"Invalid format">>)]
    ELSE IF outcome = "none"
    THEN [raised |-> TRUE,
          exc |-> Exc("S57ParseError",
                      prefix \o <<"Could not open file: ", file_path>>)]
    ELSE [raised |-> FALSE, exc |-> NoExc]

extract_layers(ds) ==
    [i \in 1..Len(ds.layers) |->
        [name |-> ds.layers[i].name, layer |-> i,
         feature_count |-> ds.layers[i].feature_count]]

RECURSIVE ExtractLayersCalls(_, _)
ExtractLayersCalls(ds, i) ==
    IF i > Len(ds.layers) THEN << >>
    ELSE <<Call("GetLayer", i, << >>, ""),
           Call("GetName", i, << >>, ds.layers[i].name),
           Call("GetFeatureCount", i, << >>, "")>> \o ExtractLayersCalls(ds, i + 1)

-----------------------------------------------------------------------------
(* S57Parser.parse: the steps of one call *)

Raise(e) ==
    /\ pc' = "raised"
    /\ exc' = e
    /\ result' = Raised(e)

InList(x, list) == \E i \in 1..Len(list) : list[i] = x

\* A variant that ignores feature_types.
IncludedAlways(layer_name, opts) == TRUE

\* A variant that takes an empty feature_types for no filter at all.
IncludedEmptyMeansAll(layer_name, opts) ==
    ~(/\ "feature_types" \in DOMAIN opts
      /\ opts["feature_types"] # << >>
      /\ ~InList(layer_name, opts["feature_types"]))

\* Lines 337-339: whether the layer passes the feature_types filter.
Included(layer_name, opts) ==
    ~("feature_types" \in DOMAIN opts /\ ~InList(layer_name, opts["feature_types"]))

\* A variant that sets the spatial filter after resetting the read cursor.
LayerSetupCallsResetFirst(layer, opts) ==
    <<Call("ResetReading", layer, << >>, "")>>
    \o (IF "bbox" \in DOMAIN opts
        THEN <<Call("SetSpatialFilterRect", layer,
                    <<opts["bbox"][1], opts["bbox"][2], opts["bbox"][3], opts["bbox"][4]>>,
                    "")>>
        ELSE << >>)

\* Lines 342-344 and 113: the native calls made on an included layer before
\* its first feature is requested.
LayerSetupCalls(layer, opts) ==
    (IF "bbox" \in DOMAIN opts
     THEN <<Call("SetSpatialFilterRect", layer,
                 <<opts["bbox"][1], opts["bbox"][2], opts["bbox"][3], opts["bbox"][4]>>,
                 "")>>
     ELSE << >>)
    \o <<Call("ResetReading", layer, << >>, "")>>

\* A variant bounded by the layer's reported feature count.
LoopCountBounded(feature_present, layer_info, extracted) ==
    feature_present /\ Len(extracted) < layer_info.feature_count

\* Line 116: whether the loop goes on after GetNextFeature returned.
LoopContinues(feature_present, layer_info, extracted) == feature_present

\* A variant that drops a feature whose id is already in the output.
RECURSIVE AppendDistinct(_, _, _)
AppendDistinct(out, fs, i) ==
    IF i > Len(fs) THEN out
    ELSE IF \E k \in 1..Len(out) : out[k].id = fs[i].id
        THEN AppendDistinct(out, fs, i + 1)
    ELSE AppendDistinct(Append(out, fs[i]), fs, i + 1)

AppendLayerDedup(out, layer_name, ds) ==
    AppendDistinct(out, AssembleAll(layer_name, ds), 1)

\* Lines 350-362: the layer's dictionaries appended to the output list.
AppendLayer(out, layer_name, ds) == out \o AssembleAll(layer_name, ds)

\* A variant in which the lists and handles of the previous call are kept
\* (held on the instance, or in a mutable default).
ParseLocalsKept(prev) == prev

\* Lines 321-330: the local variables a parse call starts with; prev is what
\* the previous call on the instance left. They are bound anew in every call;
\* the instance holds only its logger (lines 53-55).
ParseLocals(prev) ==
    [dataset |-> NoDataset, layers |-> << >>, li |-> 0, features |-> << >>,
     all_features |-> << >>]

\* The start of a parse call: its options, and its local variables and the
\* record of its native calls, all empty.
EnterParse ==
    /\ \E hasTypes \in BOOLEAN, types \in FeatureTypeLists, hasBbox \in BOOLEAN :
          /\ (~hasTypes => types = << >>)
          /\ options' = MakeOptions(hasTypes, types, hasBbox, BBox)
    /\ LET l == ParseLocals([dataset |-> dataset, layers |-> layers, li |-> li,
                             features |-> features,
                             all_features |-> all_features])
       IN  /\ dataset' = l.dataset
           /\ layers' = l.layers
           /\ li' = l.li
           /\ features' = l.features
           /\ all_features' = l.all_features
    /\ calls' = << >>
    /\ yielded' = << >>
    /\ exhausted' = << >>
    /\ xlate' = << >>
    /\ exc' = NoExc
    /\ result' = NoResult
    /\ caller' = "parse"
    /\ pc' = "open"
    /\ UNCHANGED <<args, stdout, written, exit_code, inst>>

\* A caller makes the first parse call on a new parser instance.
CallParse ==
    /\ pc = "idle"
    /\ prior' = prior
    /\ EnterParse

\* A caller makes a further parse call on an instance whose previous call
\* returned or raised.
CallParseAgain ==
    /\ caller = "parse"
    /\ pc \in {"returned", "raised"}
    /\ Len(prior) < MaxCalls
    /\ prior' = Append(prior, pc)
    /\ EnterParse

OpenStep(outcome, ds) ==
    LET r == open(outcome, InputPath) IN
    /\ calls' = Append(calls, Call("OpenEx", 0, <<InputPath>>,
                                   IF outcome = "none" THEN "None" ELSE outcome))
    /\ IF r.raised
       THEN Raise(r.exc) /\ UNCHANGED dataset
       ELSE /\ pc' = "extract_layers"
            /\ dataset' = IF outcome = "dataset" THEN ds ELSE NoDataset
            /\ UNCHANGED <<exc, result>>
    /\ UNCHANGED <<caller, args, options, layers, li, features, all_features,
                   yielded, exhausted, xlate, stdout, written, exit_code>>

Open ==
    /\ pc = "open"
    /\ UNCHANGED <<prior, inst>>
    /\ \/ \E outcome \in OpenFailures : OpenStep(outcome, NoDataset)
       \/ \E ds \in Datasets : OpenStep("dataset", ds)

ExtractLayers ==
    /\ pc = "extract_layers"
    /\ UNCHANGED <<prior, inst>>
    /\ IF dataset.handle = "None"
       THEN /\ Raise(Exc("AttributeError", <<"GetLayerCount">>))
            /\ UNCHANGED <<calls, layers, li, yielded, exhausted>>
       ELSE IF dataset.fault
       THEN /\ calls' = Append(calls, Call("GetLayerCount", 0, << >>, "raises"))
            /\ Raise(Exc("RuntimeError", <<"GetLayerCount">>))
            /\ UNCHANGED <<layers, li, yielded, exhausted>>
       ELSE /\ calls' = Append(calls, Call("GetLayerCount", 0, << >>, ""))
                            \o ExtractLayersCalls(dataset, 1)
            /\ layers' = extract_layers(dataset)
            /\ li' = 1
            /\ yielded' = [i \in 1..Len(dataset.layers) |-> << >>]
            /\ exhausted' = [i \in 1..Len(dataset.layers) |-> 0]
            /\ pc' = "layer"
            /\ UNCHANGED <<exc, result>>
    /\ UNCHANGED <<caller, args, options, dataset, features, all_features,
                   xlate, stdout, written, exit_code>>

LayerSkip ==
    /\ pc = "layer"
    /\ UNCHANGED <<prior, inst>>
    /\ li <= Len(layers)
    /\ ~Included(layers[li].name, options)
    /\ li' = li + 1
    /\ UNCHANGED <<pc, caller, args, options, dataset, layers, features,
                   all_features, calls, yielded, exhausted, xlate, exc, result,
                   stdout, written, exit_code>>

LayerEnter ==
    /\ pc = "layer"
    /\ UNCHANGED <<prior, inst>>
    /\ li <= Len(layers)
    /\ Included(layers[li].name, options)
    /\ calls' = calls \o LayerSetupCalls(layers[li].layer, options)
    /\ features' = << >>
    /\ pc' = "iterate"
    /\ UNCHANGED <<caller, args, options, dataset, layers, li, all_features,
                   yielded, exhausted, xlate, exc, result, stdout, written, exit_code>>

\* The end of extract_features' loop and parse's lines 349-362 for the layer.
FinishLayer ==
    /\ all_features' = AppendLayer(all_features, layers[li].name, features)
    /\ features' = << >>
    /\ li' = li + 1
    /\ pc' = "layer"
    /\ UNCHANGED <<exc, result, xlate>>

NextFeature ==
    /\ pc = "iterate"
    /\ UNCHANGED <<prior, inst>>
    /\ TotalYielded < (IF prior = << >> THEN MaxFeatures ELSE MaxRepeatFeatures)
    /\ \E f \in FeatureKinds :
          LET r == ExtractOne(f) IN
          /\ calls' = Append(calls,
                             Call("GetNextFeature", layers[li].layer, << >>, "feature"))
          /\ yielded' = [yielded EXCEPT ![li] = Append(@, f)]
          /\ IF ~LoopContinues(TRUE, layers[li], features)
             THEN FinishLayer
             ELSE IF r.raised
             THEN /\ Raise(r.exc)
                  /\ xlate' = xlate \o r.xl
                  /\ UNCHANGED <<features, all_features, li>>
             ELSE /\ features' = Append(features, r.dict)
                  /\ xlate' = xlate \o r.xl
                  /\ UNCHANGED <<pc, exc, result, all_features, li>>
    /\ UNCHANGED <<caller, args, options, dataset, layers, exhausted, stdout,
                   written, exit_code>>

EndOfLayer ==
    /\ pc = "iterate"
    /\ UNCHANGED <<prior, inst>>
    /\ calls' = Append(calls,
                       Call("GetNextFeature", layers[li].layer, << >>, "None"))
    /\ exhausted' = [exhausted EXCEPT ![li] = @ + 1]
    /\ FinishLayer
    /\ UNCHANGED <<caller, args, options, dataset, layers, yielded, stdout,
                   written, exit_code>>

ParseReturn ==
    /\ pc = "layer"
    /\ UNCHANGED <<prior, inst>>
    /\ li > Len(layers)
    /\ result' = Returned(all_features)
    /\ pc' = "returned"
    /\ UNCHANGED <<caller, args, options, dataset, layers, li, features,
                   all_features, calls, yielded, exhausted, xlate, exc, stdout,
                   written, exit_code>>

-----------------------------------------------------------------------------
(* The command-line entry point: the import guard, parse_args and main *)

\* What is printed on standard output or written to the output file: a JSON
\* object with its keys, or a plain text line.
ErrorDoc(msg, type, keys) ==
    [kind |-> "json", keys |-> keys, error |-> msg, type |-> type,
     features |-> << >>]
CollectionDoc(fs) ==
    [kind |-> "json", keys |-> {"type", "features"}, error |-> << >>,
     type |-> "FeatureCollection", features |-> fs]
TextLine(parts) ==
    [kind |-> "text", keys |-> {}, error |-> parts, type |-> "",
     features |-> << >>]

\* Lines 416-420: the options main builds from the parsed arguments.
BuildOptions(a) ==
    MakeOptions(a.feature_types # << >>, a.feature_types,
                a.bbox # << >>, a.bbox)

\* A variant whose second except clause also returns 1.
main_except_one(e, verbose) ==
    IF e.type = "S57ParseError"
    THEN [doc |-> ErrorDoc(e.msg, "S57ParseError", {"error", "type"}), code |-> 1]
    ELSE [doc |-> ErrorDoc(<<"Unexpected error: ">> \o e.msg, "UnexpectedError",
                           IF verbose THEN {"error", "type", "traceback"}
                           ELSE {"error", "type"}),
          code |-> 1]

\* Lines 439-451: main's two except clauses.
main_except(e, verbose) ==
    IF e.type = "S57ParseError"
    THEN [doc |-> ErrorDoc(e.msg, "S57ParseError", {"error", "type"}), code |-> 1]
    ELSE [doc |-> ErrorDoc(<<"Unexpected error: ">> \o e.msg, "UnexpectedError",
                           IF verbose THEN {"error", "type", "traceback"}
                           ELSE {"error", "type"}),
          code |-> 2]

\* A variant that reports the failed import and goes on.
ImportGuardContinues ==
    /\ pc = "idle"
    /\ UNCHANGED <<prior, inst>>
    /\ caller' = "main"
    /\ pc' = "parse_args"
    /\ \/ UNCHANGED stdout
       \/ stdout' = Append(stdout,
              ErrorDoc(<<"GDAL Python bindings not found: ", "No module named 'osgeo'">>,
                       "ImportError", {"error", "type", "hint"}))
    /\ UNCHANGED <<args, options, dataset, layers, li, features, all_features,
                   calls, yielded, exhausted, xlate, exc, result, written,
                   exit_code>>

\* Lines 13-25: the module's import of the native library.
ImportGuard ==
    /\ pc = "idle"
    /\ UNCHANGED <<prior, inst>>
    /\ caller' = "main"
    /\ \/ /\ pc' = "parse_args"
          /\ UNCHANGED <<stdout, exit_code>>
       \/ /\ stdout' = Append(stdout,
                 ErrorDoc(<<"GDAL Python bindings not found: ", "No module named 'osgeo'">>,
                          "ImportError", {"error", "type", "hint"}))
          /\ exit_code' = <<1>>
          /\ pc' = "done"
    /\ UNCHANGED <<args, options, dataset, layers, li, features, all_features,
                   calls, yielded, exhausted, xlate, exc, result, written>>

\* Lines 371-402: argparse accepts the command line, or prints its usage on
\* standard error and exits with code 2.
ParseArgs ==
    /\ pc = "parse_args"
    /\ UNCHANGED <<prior, inst>>
    /\ \/ \E types \in {<< >>, <<"DEPARE">>}, bbox \in {<< >>, BBox} :
             /\ args' = [NoArgs EXCEPT !.input = InputPath,
                                       !.feature_types = types, !.bbox = bbox]
             /\ pc' = "main"
             /\ UNCHANGED exit_code
       \/ /\ exit_code' = <<2>>
          /\ pc' = "done"
          /\ UNCHANGED args
    /\ UNCHANGED <<caller, options, dataset, layers, li, features, all_features,
                   calls, yielded, exhausted, xlate, exc, result, stdout, written>>

\* Lines 409-425: main up to its call of parse.
MainStart ==
    /\ pc = "main"
    /\ UNCHANGED <<prior, inst>>
    /\ options' = BuildOptions(args)
    /\ pc' = "open"
    /\ UNCHANGED <<caller, args, dataset, layers, li, features, all_features,
                   calls, yielded, exhausted, xlate, exc, result, stdout, written,
                   exit_code>>

\* Lines 427-437: the result is printed, or written to the -o file (which may
\* fail to open, an OSError the second except clause handles). The command
\* line's -o and -v values are recorded where main reads them.
MainOutput ==
    /\ pc = "returned"
    /\ UNCHANGED <<prior, inst>>
    /\ caller = "main"
    /\ \/ /\ args' = args
          /\ stdout' = Append(stdout, CollectionDoc(result.features))
          /\ exit_code' = <<0>>
          /\ UNCHANGED <<written, exc>>
       \/ /\ args' = [args EXCEPT !.output = OutputPath]
          /\ written' = Append(written, CollectionDoc(result.features))
          /\ stdout' = Append(stdout, TextLine(<<"Output written to ", OutputPath>>))
          /\ exit_code' = <<0>>
          /\ UNCHANGED exc
       \/ \E verbose \in BOOLEAN :
             LET e == Exc("OSError", <<"Permission denied">>)
                 h == main_except(e, verbose)
             IN  /\ args' = [args EXCEPT !.output = OutputPath, !.verbose = verbose]
                 /\ exc' = e
                 /\ stdout' = Append(stdout, h.doc)
                 /\ exit_code' = <<h.code>>
                 /\ UNCHANGED written
    /\ pc' = "done"
    /\ UNCHANGED <<caller, options, dataset, layers, li, features, all_features,
                   calls, yielded, exhausted, xlate, result>>

\* Lines 439-451: parse raised.
MainExcept ==
    /\ pc = "raised"
    /\ UNCHANGED <<prior, inst>>
    /\ caller = "main"
    /\ \E verbose \in BOOLEAN :
          LET h == main_except(exc, verbose) IN
          /\ args' = [args EXCEPT !.verbose = verbose]
          /\ stdout' = Append(stdout, h.doc)
          /\ exit_code' = <<h.code>>
    /\ pc' = "done"
    /\ UNCHANGED <<caller, options, dataset, layers, li, features, all_features,
                   calls, yielded, exhausted, xlate, exc, result, written>>

-----------------------------------------------------------------------------
(* Direct calls of the geometry translator, as the unit tests make them *)

Vertices == {<<1, 2, 0>>, <<3, 4, 5>>}
VertexSeqs == UNION {[1..n -> Vertices] : n \in 0..MaxPts}
SrsValues == {NoSrs, WGS84Code, UTM33Code}
Origin == <<0, 0, 0>>

Ring(ps) == Geom(wkbLineString, NoSrs, "none", Origin, ps, << >>)
Rings == {Ring(ps) : ps \in VertexSeqs}

\* The members of multi-part geometries.
MemberPoints ==
    {Geom(t, NoSrs, "none", p, << >>, << >>) :
        t \in {wkbPoint, wkbPoint25D}, p \in Vertices}
MemberLines == Rings
SimpleRings == {Ring(<<v>>) : v \in Vertices}
MemberPolygons ==
    {Geom(wkbPolygon, NoSrs, "none", Origin, << >>, rs) :
        rs \in UNION {[1..n -> SimpleRings] : n \in 0..MaxParts}}

\* One direct call: fn is "convert" (convert_geometry_to_geojson) or
\* "transform" (transform_to_wgs84), on the object at ref in heap.
TranslatorStep(fn, heap, ref) ==
    LET out == IF fn = "convert" THEN convert_geometry_to_geojson(heap, ref)
               ELSE transform_to_wgs84(heap, ref)
    IN  /\ xlate' = <<XRec(fn, heap, ref, out)>>
        /\ pc' = IF out.raised THEN "raised" ELSE "returned"

\* A caller passes a geometry to one of the two routines: a point (also under
\* the type tags no routine handles), a line, a polygon, one of the three
\* multi-part kinds, or None (to convert_geometry_to_geojson).
CallTranslator ==
    /\ pc = "idle"
    /\ UNCHANGED <<prior, inst>>
    /\ \E fn \in {"convert", "transform"} :
          /\ caller' = fn
          /\ \/ \E t \in {wkbPoint, wkbPoint25D} \cup UnsupportedTypes,
                   s \in SrsValues, f \in FaultSites, p \in Vertices :
                   TranslatorStep(fn, <<Geom(t, s, f, p, << >>, << >>)>>, 1)
             \/ \E t \in {wkbLineString, wkbLineString25D},
                   s \in SrsValues, f \in FaultSites, ps \in VertexSeqs :
                   TranslatorStep(fn, <<Geom(t, s, f, Origin, ps, << >>)>>, 1)
             \/ \E t \in {wkbPolygon, wkbPolygon25D},
                   s \in SrsValues, f \in {"none", "coords"}, n \in 0..MaxParts :
                   \E rs \in [1..n -> Rings] :
                      TranslatorStep(fn, <<Geom(t, s, f, Origin, << >>, rs)>>, 1)
             \/ \E t \in {wkbMultiPoint, wkbMultiPoint25D},
                   s \in {NoSrs, UTM33Code}, n \in 0..MaxParts :
                   \E ms \in [1..n -> MemberPoints] :
                      TranslatorStep(fn, <<Geom(t, s, "none", Origin, << >>, ms)>>, 1)
             \/ \E t \in {wkbMultiLineString, wkbMultiLineString25D},
                   s \in {NoSrs, UTM33Code}, n \in 0..MaxParts :
                   \E ms \in [1..n -> MemberLines] :
                      TranslatorStep(fn, <<Geom(t, s, "none", Origin, << >>, ms)>>, 1)
             \/ \E t \in {wkbMultiPolygon, wkbMultiPolygon25D},
                   s \in {NoSrs, UTM33Code}, n \in 0..MaxParts :
                   \E ms \in [1..n -> MemberPolygons] :
                      TranslatorStep(fn, <<Geom(t, s, "none", Origin, << >>, ms)>>, 1)
             \/ /\ fn = "convert"
                /\ TranslatorStep(fn, <<PointNoCrs>>, NullRef)
    /\ UNCHANGED <<args, options, dataset, layers, li, features, all_features,
                   calls, yielded, exhausted, exc, result, stdout, written,
                   exit_code>>

-----------------------------------------------------------------------------
(* GDALInstaller (install_gdal.py): get_installation_methods,
   install_with_method and the steps of run *)

\* A method's command: an argument list, or the marker 'manual'.
Cmd(argv) == [kind |-> "cmd", argv |-> argv]
Manual == [kind |-> "manual", argv |-> << >>]
Method(name, command) == [name |-> name, command |-> command]

\* The values of --method.
MethodChoices == {"homebrew", "conda", "pip", "apt", "yum", "osgeo4w"}

Systems == {"Darwin", "Linux", "Windows"}
Distros == {"debian", "redhat", "other"}
\* What gdal-config --version gives: "" when the tool is absent or fails.
GdalVersions == {"", "3.8.4"}

CondaCmd == Cmd(<<"conda", "install", "-c", "conda-forge", "gdal", "-y">>)

\* Lines 76-122. privileged: ci_mode or effective user id 0; brew, conda:
\* whether shutil.which finds the tool. A dict keeps insertion order.
get_installation_methods(system, distro, privileged, brew, conda, gdal_version) ==
    LET sudo == IF privileged THEN << >> ELSE <<"sudo">>
        condaM == IF conda THEN <<Method("conda", CondaCmd)>> ELSE << >>
    IN  IF system = "Darwin"
        THEN (IF brew THEN <<Method("homebrew", Cmd(<<"brew", "install", "gdal">>))>>
              ELSE << >>)
             \o condaM
             \o (IF gdal_version # ""
                 THEN <<Method("pip", Cmd(<<"pip", "install", "GDAL==" \o gdal_version>>))>>
                 ELSE << >>)
        ELSE IF system = "Linux"
        THEN (IF distro = "debian"
              THEN <<Method("apt", Cmd(sudo \o <<"apt-get", "install", "-y",
                                                "gdal-bin", "python3-gdal">>))>>
              ELSE IF distro = "redhat"
              THEN <<Method("yum", Cmd(sudo \o <<"yum", "install", "-y",
                                                "gdal", "gdal-python">>))>>
              ELSE << >>)
             \o condaM
        ELSE IF system = "Windows"
        THEN condaM \o <<Method("osgeo4w", Manual)>>
        ELSE << >>

\* A command run through subprocess.run: the method it belongs to, its role
\* ("update", "clean", "install"), its arguments and how it ended ("" where
\* the code ignores that).
Ran(method, role, argv, outcome) ==
    [method |-> method, role |-> role, argv |-> argv, outcome |-> outcome]

\* How the installation command may end: exit status 0, another exit status
\* (CalledProcessError under check=True), or the 300 s timeout.
Outcomes == {"ok", "nonzero", "timeout"}
Responses == {"y", "n"}

IsSudo(command) == Len(command.argv) > 0 /\ command.argv[1] = "sudo"

\* A variant that counts a manual method as installed.
install_manual_succeeds(method, command, auto, response, outcome) ==
    IF command.kind = "manual" THEN [ok |-> TRUE, cmds |-> << >>]
    ELSE IF IsSudo(command) /\ ~auto /\ response # "y"
        THEN [ok |-> FALSE, cmds |-> << >>]
    ELSE [ok |-> outcome = "ok",
          cmds |-> <<Ran(method, "install", command.argv, outcome)>>]

\* Lines 124-209. response: the answer to the sudo prompt; outcome: how the
\* installation command ends.
install_with_method(method, command, auto, response, outcome) ==
    IF command.kind = "manual" THEN [ok |-> FALSE, cmds |-> << >>]
    ELSE IF IsSudo(command) /\ ~auto /\ response # "y"
        THEN [ok |-> FALSE, cmds |-> << >>]
    ELSE
    LET pre == IF method = "apt"
               THEN <<Ran(method, "update",
                          (IF IsSudo(command) THEN <<"sudo">> ELSE << >>)
                             \o <<"apt-get", "update">>, "")>>
               ELSE IF method = "yum" /\ IsSudo(command)
               THEN <<Ran(method, "clean", <<"sudo", "yum", "clean", "all">>, "")>>
               ELSE << >>
    IN  [ok |-> outcome = "ok",
         cmds |-> pre \o <<Ran(method, "install", command.argv, outcome)>>]

\* Whether --method names one of the available methods (line 38).
PreferredAvailable(i) ==
    /\ i.preferred # ""
    /\ \E k \in 1..Len(i.methods) : i.methods[k].name = i.preferred

MethodNamed(i, name) == CHOOSE k \in 1..Len(i.methods) : i.methods[k].name = name

\* The installer after install_with_method was called on methods[k].
Attempt(i, k, response, outcome) ==
    LET m == i.methods[k]
        r == install_with_method(m.name, m.command, i.auto, response, outcome)
    IN  [i EXCEPT !.success = r.ok,
                  !.tried = Append(@, [idx |-> k, method |-> m.name, ok |-> r.ok]),
                  !.cmds = @ \o r.cmds]

\* Lines 23-36: run up to the choice of the methods.
InstallerRun ==
    /\ pc = "idle"
    /\ caller' = "installer"
    /\ \E auto \in BOOLEAN, preferred \in {""} \cup MethodChoices,
          existing \in BOOLEAN, system \in Systems, distro \in Distros,
          privileged \in BOOLEAN, brew \in BOOLEAN, conda \in BOOLEAN,
          gdal_version \in GdalVersions :
          /\ inst' = [NoInstaller EXCEPT
                         !.auto = auto,
                         !.preferred = preferred,
                         !.existing = existing,
                         !.methods = IF existing THEN << >>
                                     ELSE get_installation_methods(
                                              system, distro, privileged, brew,
                                              conda, gdal_version),
                         !.idx = 1,
                         !.ret = IF existing THEN <<TRUE>> ELSE << >>]
          /\ pc' = IF existing THEN "done" ELSE "install"
    /\ UNCHANGED <<args, options, dataset, layers, li, features, all_features,
                   calls, yielded, exhausted, xlate, exc, result, stdout, written,
                   exit_code, prior>>

\* Lines 38-40: the requested method is available and is the one used.
InstallPreferred ==
    /\ pc = "install"
    /\ caller = "installer"
    /\ PreferredAvailable(inst)
    /\ \E response \in Responses, outcome \in Outcomes :
          inst' = Attempt(inst, MethodNamed(inst, inst.preferred), response, outcome)
    /\ pc' = "verify"
    /\ UNCHANGED <<caller, args, options, dataset, layers, li, features,
                   all_features, calls, yielded, exhausted, xlate, exc, result,
                   stdout, written, exit_code, prior>>

\* Lines 44-48: one iteration of the loop over the methods. confirmed: the
\* answer confirm_installation gets (asked only without --auto).
TryMethod ==
    /\ pc = "install"
    /\ caller = "installer"
    /\ ~PreferredAvailable(inst)
    /\ inst.idx <= Len(inst.methods)
    /\ \E confirmed \in BOOLEAN, response \in Responses, outcome \in Outcomes :
          IF inst.auto \/ confirmed
          THEN LET a == Attempt(inst, inst.idx, response, outcome) IN
               IF a.success
               THEN inst' = a /\ pc' = "verify"
               ELSE inst' = [a EXCEPT !.idx = @ + 1] /\ pc' = pc
          ELSE inst' = [inst EXCEPT !.idx = @ + 1] /\ pc' = pc
    /\ UNCHANGED <<caller, args, options, dataset, layers, li, features,
                   all_features, calls, yielded, exhausted, xlate, exc, result,
                   stdout, written, exit_code, prior>>

\* Line 44: the loop has gone through every method.
MethodsExhausted ==
    /\ pc = "install"
    /\ caller = "installer"
    /\ ~PreferredAvailable(inst)
    /\ inst.idx > Len(inst.methods)
    /\ pc' = "verify"
    /\ UNCHANGED <<caller, args, options, dataset, layers, li, features,
                   all_features, calls, yielded, exhausted, xlate, exc, result,
                   stdout, written, exit_code, prior, inst>>

\* Lines 50-62 with verify_installation (234-247): verified is whether both
\* of its commands succeed.
VerifyAndReturn ==
    /\ pc = "verify"
    /\ caller = "installer"
    /\ IF inst.success
       THEN \E verified \in BOOLEAN :
               inst' = [inst EXCEPT !.verified = <<verified>>, !.ret = <<verified>>]
       ELSE inst' = [inst EXCEPT !.ret = <<FALSE>>]
    /\ pc' = "done"
    /\ UNCHANGED <<caller, args, options, dataset, layers, li, features,
                   all_features, calls, yielded, exhausted, xlate, exc, result,
                   stdout, written, exit_code, prior>>

-----------------------------------------------------------------------------

Next ==
    \/ ImportGuard
    \/ ParseArgs
    \/ MainStart
    \/ CallParse
    \/ Open
    \/ ExtractLayers
    \/ LayerSkip
    \/ LayerEnter
    \/ NextFeature
    \/ EndOfLayer
    \/ ParseReturn
    \/ MainOutput
    \/ MainExcept
    \/ CallTranslator
    \/ InstallerRun
    \/ InstallPreferred
    \/ TryMethod
    \/ MethodsExhausted
    \/ VerifyAndReturn

Spec == Init /\ [][Next]_vars

\* The same program with callers that call parse repeatedly on one instance.
NextRepeat ==
    \/ Next
    \/ CallParseAgain

SpecRepeat == Init /\ [][NextRepeat]_vars

-----------------------------------------------------------------------------
(* Properties *)

InParse == caller \in {"parse", "main"}

IterOps == {"SetSpatialFilterRect", "ResetReading", "GetNextFeature"}

\* The filter, reset and feature requests made on layer i, in order.
LayerCalls(i) == SelectSeq(calls, LAMBDA c : c.layer = i /\ c.op \in IterOps)

\* How many features the layers before layer i yielded.
RECURSIVE YieldedBefore(_)
YieldedBefore(i) == IF i <= 1 THEN 0 ELSE Len(yielded[i - 1]) + YieldedBefore(i - 1)

FeatureTypesGiven == "feature_types" \in DOMAIN options
Excluded(i) == FeatureTypesGiven /\ ~InList(layers[i].name, options["feature_types"])

\* C1: when feature_types is present, no output feature carries a
\* _featureType outside feature_types, and on an excluded layer neither
\* SetSpatialFilterRect, ResetReading nor GetNextFeature is ever called.
C1_ExcludedLayerUntouched ==
    (InParse /\ FeatureTypesGiven) =>
        /\ \A k \in 1..Len(all_features) :
              InList(all_features[k].properties["_featureType"].s,
                     options["feature_types"])
        /\ \A k \in 1..Len(result.features) :
              InList(result.features[k].properties["_featureType"].s,
                     options["feature_types"])
        /\ \A i \in 1..Len(layers) : Excluded(i) => LayerCalls(i) = << >>

C1_Witness ==
    /\ caller = "parse"
    /\ pc = "returned"
    /\ FeatureTypesGiven
    /\ Len(result.features) > 0
    /\ \E i \in 1..Len(layers) : Excluded(i)

\* A failure the library raises on one feature record: reading its fields or
\* fetching its geometry raises, or its geometry is corrupt.
RecordFails(f) == f.fault # "none" \/ (f.hasGeom /\ f.geom.fault # "none")

\* C2: once the dataset is open, a failure raised while processing a single
\* feature record never aborts parse (stated as the claim reads; the code
\* violates it).
C2_FeatureFailureNeverAborts ==
    (InParse /\ \E i \in 1..Len(yielded) : \E k \in 1..Len(yielded[i]) :
                    RecordFails(yielded[i][k]))
        => pc # "raised"

\* Whether the native call that raises on geometry g is one the translator
\* makes on it.
FaultReached(g) ==
    \/ g.fault \in {"GetSpatialReference", "GetGeometryType"}
    \/ g.fault = "GetAuthorityCode" /\ g.srs # NoSrs
    \/ g.fault \in {"CoordinateTransformation", "Clone", "Transform"}
          /\ g.srs \notin {NoSrs, WGS84Code}
    \/ g.fault = "coords" /\ g.gtype \in SupportedTypes

\* C3: convert_geometry_to_geojson never raises; when a step of the geometry
\* inspection throws, it returns None.
C3_ConvertNeverRaises ==
    /\ \A k \in 1..Len(xlate) :
          xlate[k].fn = "convert" =>
             /\ ~xlate[k].out.raised
             /\ (xlate[k].ref # NullRef /\ FaultReached(xlate[k].heap[xlate[k].ref]))
                   => xlate[k].out.value = NoneGeom
    /\ caller = "convert" => pc # "raised"

C3_Witness ==
    /\ caller = "convert"
    /\ pc = "returned"
    /\ xlate[1].heap[1].fault = "Transform"
    /\ xlate[1].heap[1].srs = UTM33Code
    /\ xlate[1].out.value = NoneGeom

\* A feature the library hands over intact but without a usable geometry.
NoUsableGeometry(f) ==
    /\ f.fault = "none"
    /\ ~f.hasGeom \/ (f.geom.fault = "none" /\ f.geom.gtype \notin SupportedTypes)

LastYielded == yielded[li][Len(yielded[li])]

\* C4: a feature with no geometry, or with a geometry of an unsupported type,
\* is emitted at its place with geometry null, and does not make parse fail.
C4_NullGeometryEmitted ==
    /\ (InParse /\ pc = "returned") =>
          /\ Len(result.features) = TotalYielded
          /\ \A i \in 1..Len(yielded) : \A k \in 1..Len(yielded[i]) :
                NoUsableGeometry(yielded[i][k]) =>
                   /\ result.features[YieldedBefore(i) + k].geometry = NoneGeom
                   /\ result.features[YieldedBefore(i) + k].id
                         = FeatureId(layers[i].name, yielded[i][k].fid)
    /\ (InParse /\ pc = "raised" /\ TotalYielded > 0) => ~NoUsableGeometry(LastYielded)

C4_Witness ==
    /\ caller = "parse"
    /\ pc = "returned"
    /\ Len(yielded) = 1
    /\ Len(yielded[1]) = 2
    /\ ~yielded[1][1].hasGeom /\ yielded[1][1].fault = "none"
    /\ yielded[1][2].geom.gtype = wkbGeometryCollection
    /\ result.features[1].geometry = NoneGeom
    /\ result.features[2].geometry = NoneGeom

\* The open call of this parse failed: OpenEx returned None or raised.
OpenFailed ==
    /\ InParse
    /\ Len(calls) >= 1
    /\ calls[1].op = "OpenEx"
    /\ calls[1].ret \in {"None", "raises"}

\* C5: when the dataset cannot be opened, open raises S57ParseError with the
\* cause in its message, parse makes no layer or feature access, and main
\* prints {"error": ..., "type": "S57ParseError"}, no features, exit code 1.
C5_OpenFailureShortCircuits ==
    OpenFailed =>
        /\ pc \in {"raised", "done"}
        /\ exc.type = "S57ParseError"
        /\ calls[1].ret = "None" => InList("Could not open file: ", exc.msg)
        /\ calls[1].ret = "raises" => InList("Invalid format", exc.msg)
        /\ result = Raised(exc)
        /\ Len(calls) = 1
        /\ all_features = << >>
        /\ xlate = << >>
        /\ written = << >>
        /\ caller = "parse" => stdout = << >> /\ exit_code = << >>
        /\ (caller = "main" /\ pc = "raised") => stdout = << >> /\ exit_code = << >>
        /\ (caller = "main" /\ pc = "done") =>
              /\ stdout = <<ErrorDoc(exc.msg, "S57ParseError", {"error", "type"})>>
              /\ exit_code = <<1>>

C5_Witness ==
    /\ OpenFailed
    /\ calls[1].ret = "None"
    /\ caller = "main"
    /\ pc = "done"
    /\ exit_code = <<1>>
    /\ Len(stdout) = 1
    /\ stdout[1].type = "S57ParseError"

\* What parse's output must be: layer by layer in dataset order, each layer's
\* yielded features in the order they were yielded, each one assembled.
RECURSIVE ExpectedFrom(_)
ExpectedFrom(i) ==
    IF i > Len(layers) THEN << >>
    ELSE [k \in 1..Len(yielded[i]) |->
             Assemble(layers[i].name, ExtractOne(yielded[i][k]).dict)]
         \o ExpectedFrom(i + 1)

\* C6: the returned features are the concatenation, in dataset layer order, of
\* each included layer's features in the order the layer yielded them;
\* nothing is reordered, deduplicated or dropped.
C6_OutputIsConcatenation ==
    (InParse /\ pc = "returned") =>
        /\ result.features = ExpectedFrom(1)
        /\ Len(result.features) = TotalYielded
        /\ \A i \in 1..Len(layers) : \A k \in 1..Len(yielded[i]) :
              result.features[YieldedBefore(i) + k].id
                 = FeatureId(layers[i].name, yielded[i][k].fid)

C6_Witness ==
    /\ caller = "parse"
    /\ pc = "returned"
    /\ Len(layers) = 2
    /\ layers[1].name = "LIGHTS" /\ layers[2].name = "LIGHTS"
    /\ Len(yielded[1]) = 1 /\ Len(yielded[2]) = 1
    /\ yielded[1][1] = yielded[2][1]
    /\ Len(result.features) = 2
    /\ result.features[1].id = result.features[2].id

NumberOf(op, cs) == Len(SelectSeq(cs, LAMBDA c : c.op = op))

\* C7: on every layer the cursor is reset at most once and before the first
\* feature request, no feature is requested after the first sentinel, the
\* features emitted for a layer are as many as it yielded whatever its
\* reported count, and an included layer is iterated exactly once per parse.
C7_SentinelTerminated ==
    InParse =>
        /\ \A i \in 1..Len(layers) :
              LET lc == LayerCalls(i) IN
              /\ NumberOf("ResetReading", lc) <= 1
              /\ \A p \in 1..Len(lc) :
                    lc[p].op = "GetNextFeature" =>
                       /\ \E q \in 1..(p - 1) : lc[q].op = "ResetReading"
                       /\ lc[p].ret = "None" => p = Len(lc)
              /\ exhausted[i] <= 1
              /\ (i < li \/ pc = "returned") =>
                    IF Excluded(i) THEN lc = << >>
                    ELSE /\ NumberOf("ResetReading", lc) = 1
                         /\ exhausted[i] = 1
                         /\ NumberOf("GetNextFeature", lc) = Len(yielded[i]) + 1
        /\ pc = "layer" => Len(all_features) = YieldedBefore(li)
        /\ pc = "iterate" =>
              /\ Len(all_features) = YieldedBefore(li)
              /\ Len(features) = Len(yielded[li])
        /\ pc = "returned" => Len(result.features) = TotalYielded

C7_Witness ==
    /\ caller = "parse"
    /\ pc = "returned"
    /\ Len(layers) = 2
    /\ layers[1].feature_count = 0
    /\ Len(yielded[1]) = 1 /\ Len(yielded[2]) = 1
    /\ exhausted[1] = 1 /\ exhausted[2] = 1
    /\ Len(result.features) = 2

BBoxGiven == "bbox" \in DOMAIN options

\* C8: with bbox present, the first call on every included layer sets the
\* spatial filter with the four numbers in the order given, once, before the
\* reset and before any feature request; with bbox absent no spatial filter
\* is ever set.
C8_SpatialFilterFirst ==
    InParse =>
        /\ BBoxGiven =>
              \A i \in 1..Len(layers) :
                 LET lc == LayerCalls(i) IN
                 /\ lc # << >> =>
                       /\ lc[1].op = "SetSpatialFilterRect"
                       /\ lc[1].args = options["bbox"]
                       /\ lc[1].args = BBox
                       /\ NumberOf("SetSpatialFilterRect", lc) = 1
                 /\ ((i < li \/ pc = "returned") /\ ~Excluded(i)) => lc # << >>
        /\ ~BBoxGiven => NumberOf("SetSpatialFilterRect", calls) = 0

C8_Witness ==
    /\ caller = "main"
    /\ pc = "done"
    /\ BBoxGiven
    /\ Len(layers) = 2
    /\ ~Excluded(1) /\ ~Excluded(2)
    /\ NumberOf("SetSpatialFilterRect", calls) = 2
    /\ TotalYielded = 2

NoCloneNoTransform(x) ==
    \A c \in 1..Len(x.out.gcalls) : x.out.gcalls[c][1] \notin {"Clone", "Transform"}

\* C9: for a geometry with no CRS, or with authority code "4326",
\* transform_to_wgs84 returns the object it was given; no clone is made and
\* Transform is not called.
C9_Wgs84PassThrough ==
    \A k \in 1..Len(xlate) :
       LET x == xlate[k] IN
       (x.ref # NullRef /\ x.heap[x.ref].srs \in {NoSrs, WGS84Code}) =>
          /\ NoCloneNoTransform(x)
          /\ x.out.heap = x.heap
          /\ (x.fn = "transform" /\ ~x.out.raised) => x.out.ref = x.ref

C9_Witness ==
    /\ caller = "transform"
    /\ pc = "returned"
    /\ xlate[1].heap[1].srs = WGS84Code
    /\ xlate[1].out.ref = 1
    /\ Len(xlate[1].out.gcalls) = 2

Reprojected(x) ==
    /\ x.ref # NullRef
    /\ x.heap[x.ref].srs \notin {NoSrs, WGS84Code}
    /\ x.heap[x.ref].fault = "none"

TransformCalls(x) == SelectSeq(x.out.gcalls, LAMBDA c : c[1] = "Transform")

\* C11: for a geometry whose authority code is not "4326", Transform is
\* called exactly once, on the geometry object transform_to_wgs84 was given,
\* with the transformation built from that geometry's CRS (stated as the
\* claim reads; the code calls Transform on the clone instead).
C11_TransformOnGivenObject ==
    \A k \in 1..Len(xlate) :
       LET x == xlate[k] IN
       Reprojected(x) =>
          /\ Len(TransformCalls(x)) = 1
          /\ TransformCalls(x)[1] = GCall("Transform", x.ref)
          /\ \E b \in 1..Len(x.out.gcalls) :
                x.out.gcalls[b] = GCall("CoordinateTransformation", x.ref)

\* A call of convert_geometry_to_geojson on an intact geometry whose type tag
\* is one of types.
Translated(x, types) ==
    /\ x.fn = "convert"
    /\ x.ref # NullRef
    /\ x.heap[x.ref].gtype \in types
    /\ x.heap[x.ref].fault = "none"

\* The object whose coordinates the translator read.
Read(x) == x.out.heap[x.out.ref]

XY(p) == <<p[1], p[2]>>
XYZ(p) == <<p[1], p[2], p[3]>>

C13_PlainPointIncludesZ ==
    \A k \in 1..Len(xlate) :
       LET x == xlate[k] IN
       (Translated(x, {wkbPoint}) /\ Read(x).pt[3] # 0) =>
          /\ x.out.value.type = "Point"
          /\ x.out.value.coordinates = XYZ(Read(x).pt)

\* C14: every vertex of every ring of a Polygon or MultiPolygon, 2D or has-Z,
\* is emitted as [x, y]; rings keep their native order and each ring its
\* native vertices, in order and in number.
C14_PolygonRingsXY ==
    \A k \in 1..Len(xlate) :
       LET x == xlate[k]
           g == Read(x)
           c == x.out.value.coordinates
       IN
       /\ Translated(x, {wkbPolygon, wkbPolygon25D}) =>
             /\ x.out.value.type = "Polygon"
             /\ Len(c) = Len(g.parts)
             /\ \A i \in 1..Len(g.parts) :
                   /\ Len(c[i]) = Len(g.parts[i].pts)
                   /\ \A j \in 1..Len(g.parts[i].pts) :
                         /\ Len(c[i][j]) = 2
                         /\ c[i][j] = XY(g.parts[i].pts[j])
       /\ Translated(x, {wkbMultiPolygon, wkbMultiPolygon25D}) =>
             /\ x.out.value.type = "MultiPolygon"
             /\ Len(c) = Len(g.parts)
             /\ \A m \in 1..Len(g.parts) :
                   /\ Len(c[m]) = Len(g.parts[m].parts)
                   /\ \A i \in 1..Len(g.parts[m].parts) :
                         /\ Len(c[m][i]) = Len(g.parts[m].parts[i].pts)
                         /\ \A j \in 1..Len(g.parts[m].parts[i].pts) :
                               /\ Len(c[m][i][j]) = 2
                               /\ c[m][i][j] = XY(g.parts[m].parts[i].pts[j])

C14_Witness ==
    /\ caller = "convert"
    /\ pc = "returned"
    /\ Translated(xlate[1], {wkbPolygon25D})
    /\ xlate[1].heap[1].srs = NoSrs
    /\ Len(xlate[1].heap[1].parts) = 2
    /\ xlate[1].heap[1].parts[1].pts = <<<<3, 4, 5>>, <<1, 2, 0>>>>
    /\ xlate[1].heap[1].parts[2].pts = <<<<1, 2, 0>>>>
    /\ xlate[1].out.value.coordinates = <<<<<<3, 4>>, <<1, 2>>>>, <<<<1, 2>>>>>>

\* C15: a LineString, 2D or has-Z, translates to one [x, y, z] entry per
\* native vertex, in index order; the Z component is kept even when zero.
C15_LineStringKeepsZ ==
    \A k \in 1..Len(xlate) :
       LET x == xlate[k]
           g == Read(x)
           c == x.out.value.coordinates
       IN
       Translated(x, {wkbLineString, wkbLineString25D}) =>
          /\ x.out.value.type = "LineString"
          /\ Len(c) = Len(g.pts)
          /\ \A i \in 1..Len(g.pts) :
                /\ Len(c[i]) = 3
                /\ c[i] = XYZ(g.pts[i])

C15_Witness ==
    /\ caller = "convert"
    /\ pc = "returned"
    /\ Translated(xlate[1], {wkbLineString})
    /\ xlate[1].heap[1].srs = NoSrs
    /\ xlate[1].heap[1].pts = <<<<1, 2, 0>>, <<3, 4, 5>>>>
    /\ xlate[1].out.value.coordinates = <<<<1, 2, 0>>, <<3, 4, 5>>>>

\* C16: the coordinates of a MultiLineString or MultiPolygon are, in native
\* part order, what the single-type routine yields for each member (lines keep
\* Z, polygons drop it); the entries of a MultiPoint are [x, y] for every
\* member, also for a member point that is Z-flagged.
C16_MultiPartsPerMember ==
    \A k \in 1..Len(xlate) :
       LET x == xlate[k]
           g == Read(x)
           c == x.out.value.coordinates
       IN
       /\ Translated(x, {wkbMultiLineString, wkbMultiLineString25D}) =>
             /\ x.out.value.type = "MultiLineString"
             /\ Len(c) = Len(g.parts)
             /\ \A i \in 1..Len(g.parts) :
                   c[i] = _convert_linestring(g.parts[i]).coordinates
       /\ Translated(x, {wkbMultiPolygon, wkbMultiPolygon25D}) =>
             /\ x.out.value.type = "MultiPolygon"
             /\ Len(c) = Len(g.parts)
             /\ \A i \in 1..Len(g.parts) :
                   c[i] = _convert_polygon(g.parts[i]).coordinates
       /\ Translated(x, {wkbMultiPoint, wkbMultiPoint25D}) =>
             /\ x.out.value.type = "MultiPoint"
             /\ Len(c) = Len(g.parts)
             /\ \A i \in 1..Len(g.parts) :
                   /\ c[i] = XY(g.parts[i].pt)
                   /\ g.parts[i].gtype = wkbPoint =>
                         c[i] = _convert_point(g.parts[i]).coordinates

C16_Witness ==
    /\ caller = "convert"
    /\ pc = "returned"
    /\ Translated(xlate[1], {wkbMultiPoint25D})
    /\ xlate[1].heap[1].srs = NoSrs
    /\ Len(xlate[1].heap[1].parts) = 2
    /\ xlate[1].heap[1].parts[1].gtype = wkbPoint25D
    /\ xlate[1].heap[1].parts[1].pt = <<3, 4, 5>>
    /\ xlate[1].out.value.coordinates[1] = <<3, 4>>

\* C17: every feature parse returns has a properties mapping whose
\* _featureType is the name of the layer that yielded it, also when the
\* feature has a field of that name with another value.
C17_FeatureTypeInjected ==
    /\ (InParse /\ pc = "returned") =>
          /\ Len(result.features) = TotalYielded
          /\ \A i \in 1..Len(layers) : \A k \in 1..Len(yielded[i]) :
                LET p == result.features[YieldedBefore(i) + k].properties IN
                /\ "_featureType" \in DOMAIN p
                /\ p["_featureType"] = StrV(layers[i].name)
    /\ InParse =>
          \A k \in 1..Len(all_features) :
             /\ "_featureType" \in DOMAIN all_features[k].properties
             /\ \E i \in 1..Len(layers) :
                   all_features[k].properties["_featureType"] = StrV(layers[i].name)

C17_Witness ==
    /\ caller = "parse"
    /\ pc = "returned"
    /\ Len(layers) = 1
    /\ layers[1].name = "LIGHTS"
    /\ Len(yielded[1]) = 1
    /\ yielded[1][1].fields = MixedFields
    /\ result.features[1].properties["_featureType"] = StrV("LIGHTS")

\* The decimal text of a native feature id.
Decimal(n) == <<"0", "1", "2", "3">>[n + 1]

\* C18: every output feature's id is "<layer_name>.<native id>", the layer
\* being the one that yielded it, for every native id including 0; layer
\* "DEPARE" and id 1 give "DEPARE.1".
C18_IdIsLayerDotFid ==
    (InParse /\ pc = "returned") =>
        /\ Len(result.features) = TotalYielded
        /\ \A i \in 1..Len(layers) : \A k \in 1..Len(yielded[i]) :
              LET id == result.features[YieldedBefore(i) + k].id
                  fid == yielded[i][k].fid
              IN  /\ id = layers[i].name \o "." \o Decimal(fid)
                  /\ (layers[i].name = "DEPARE" /\ fid = 1) => id = "DEPARE.1"
                  /\ (layers[i].name = "LIGHTS" /\ fid = 0) => id = "LIGHTS.0"

C18_Witness ==
    /\ caller = "parse"
    /\ pc = "returned"
    /\ Len(layers) = 1
    /\ layers[1].name = "DEPARE"
    /\ Len(yielded[1]) = 2
    /\ yielded[1][1].fid = 0
    /\ yielded[1][2].fid = 1
    /\ result.features[1].id = "DEPARE.0"
    /\ result.features[2].id = "DEPARE.1"

\* The indexes of a feature's fields whose value is not null.
NonNull(f) == {i \in 1..Len(f.fields) : f.fields[i].value # Null}

\* Whether mapping p holds exactly the non-null fields of f, each with its
\* value, apart from the keys in others.
HoldsFields(p, f, others) ==
    /\ DOMAIN p = {f.fields[i].name : i \in NonNull(f)} \cup others
    /\ \A i \in NonNull(f) :
          f.fields[i].name \notin others => p[f.fields[i].name] = f.fields[i].value

\* C19: the extracted properties of a feature are exactly its fields whose
\* value is not null, each with its value (0 and the empty string are kept, a
\* null value gives no key); a feature without fields gives an empty mapping
\* and, in the output, exactly {"_featureType": <layer>}.
C19_PropertiesOmitNulls ==
    /\ (InParse /\ pc = "iterate") =>
          /\ Len(features) = Len(yielded[li])
          /\ \A k \in 1..Len(features) :
                /\ HoldsFields(features[k].properties, yielded[li][k], {})
                /\ yielded[li][k].fields = << >> => features[k].properties = EmptyDict
    /\ (InParse /\ pc = "returned") =>
          /\ Len(result.features) = TotalYielded
          /\ \A i \in 1..Len(layers) : \A k \in 1..Len(yielded[i]) :
                LET p == result.features[YieldedBefore(i) + k].properties IN
                /\ HoldsFields(p, yielded[i][k], {"_featureType"})
                /\ yielded[i][k].fields = << >> =>
                      /\ DOMAIN p = {"_featureType"}
                      /\ p["_featureType"] = StrV(layers[i].name)

C19_Witness ==
    /\ caller = "parse"
    /\ pc = "returned"
    /\ Len(layers) = 1
    /\ Len(yielded[1]) = 2
    /\ yielded[1][1].fields = MixedFields
    /\ yielded[1][2].fields = << >>
    /\ DOMAIN result.features[1].properties = {"INFORM", "_featureType"}
    /\ result.features[1].properties["INFORM"] = StrV("")
    /\ DOMAIN result.features[2].properties = {"_featureType"}

\* The native library could not be imported.
ImportFailed == Len(stdout) = 1 /\ stdout[1].type = "ImportError"

\* argparse rejected the command line.
UsageError == args = NoArgs /\ stdout = << >>

\* parse returned and its result was printed, or written to the -o file.
OutputDone ==
    /\ result.status = "returned"
    /\ exc = NoExc
    /\ \/ stdout = <<CollectionDoc(result.features)>> /\ written = << >>
       \/ /\ written = <<CollectionDoc(result.features)>>
          /\ Len(stdout) = 1
          /\ stdout[1].kind = "text"

C21_EveryFailurePrintsJson ==
    (caller = "main" /\ pc = "done" /\ exit_code # <<0>>) =>
        /\ Len(stdout) = 1
        /\ stdout[1].kind = "json"
        /\ {"error", "type"} \subseteq stdout[1].keys
        /\ "traceback" \in stdout[1].keys =>
              args.verbose /\ stdout[1].type = "UnexpectedError"

\* The import guard has reported the missing native library.
ImportErrorPrinted == Len(stdout) >= 1 /\ stdout[1].type = "ImportError"

\* C22: when the native library cannot be imported the program prints one
\* JSON error document with error, type and hint and exits with code 1,
\* before any argument parsing, dataset open or parse attempt.
C22_ImportFailureExitsFirst ==
    ImportErrorPrinted =>
        /\ pc = "done"
        /\ caller = "main"
        /\ Len(stdout) = 1
        /\ stdout[1].kind = "json"
        /\ stdout[1].keys = {"error", "type", "hint"}
        /\ exit_code = <<1>>
        /\ args = NoArgs
        /\ options = EmptyDict
        /\ dataset = NoDataset
        /\ calls = << >>
        /\ xlate = << >>
        /\ result = NoResult
        /\ written = << >>

C22_Witness ==
    /\ ImportErrorPrinted
    /\ pc = "done"
    /\ exit_code = <<1>>
    /\ calls = << >>

\* The dataset of the end-to-end example: one layer "DEPARE" that yielded one
\* feature, native id 1, DRVAL1 = 0 and DRVAL2 = 10, a 2D point without CRS.
ExampleInput ==
    /\ InParse
    /\ options = EmptyDict
    /\ Len(layers) = 1
    /\ layers[1].name = "DEPARE"
    /\ yielded = <<<<Feature(1, DepthFields, "none", TRUE, PointNoCrs)>>>>

ExampleFeature ==
    [type |-> "Feature",
     id |-> "DEPARE.1",
     geometry |-> [type |-> "Point", coordinates |-> <<-122, 47>>],
     properties |-> [DRVAL1 |-> IntV(0), DRVAL2 |-> IntV(10),
                     _featureType |-> StrV("DEPARE")]]

\* C23: parsing, with no options, a dataset with the single layer "DEPARE"
\* holding one feature (native id 1, DRVAL1 = 0, DRVAL2 = 10, a 2D point with
\* no CRS) returns a FeatureCollection with exactly one Feature: id
\* "DEPARE.1", the point's [x, y], and the two fields plus _featureType.
C23_EndToEndExample ==
    /\ (ExampleInput /\ pc = "returned") => result = Returned(<<ExampleFeature>>)
    /\ (ExampleInput /\ pc = "done") =>
          /\ result = Returned(<<ExampleFeature>>)
          /\ exc = NoExc =>
                \/ stdout = <<CollectionDoc(<<ExampleFeature>>)>>
                \/ written = <<CollectionDoc(<<ExampleFeature>>)>>

C23_Witness ==
    /\ ExampleInput
    /\ caller = "parse"
    /\ pc = "returned"
    /\ Len(result.features) = 1
    /\ result.features[1].geometry.coordinates = <<-122, 47>>

EmptyFeatureTypes == FeatureTypesGiven /\ options["feature_types"] = << >>

\* C25: with feature_types present and empty every layer is skipped: parse
\* returns an empty features list and no layer is filtered, reset or
\* iterated; only with the key absent are all layers included (main leaves
\* the key out when no feature type was given).
C25_EmptyFeatureTypesSkipsAll ==
    /\ (InParse /\ EmptyFeatureTypes) =>
          /\ \A i \in 1..Len(layers) : LayerCalls(i) = << >> /\ yielded[i] = << >>
          /\ all_features = << >>
          /\ pc # "iterate"
          /\ pc = "returned" => result = Returned(<< >>)
    /\ (InParse /\ ~FeatureTypesGiven) =>
          \A i \in 1..Len(layers) :
             (i < li \/ pc = "returned") => NumberOf("ResetReading", LayerCalls(i)) = 1
    /\ (caller = "main" /\ args.feature_types = << >>) => ~FeatureTypesGiven

C25_Witness ==
    /\ caller = "parse"
    /\ pc = "returned"
    /\ EmptyFeatureTypes
    /\ Len(layers) = 2
    /\ result = Returned(<< >>)

\* C24: a parser instance carries nothing from one parse call to the next:
\* after earlier calls, returned or raised, with any options, a call starts
\* with no dataset, layer or feature of an earlier call, opens its own dataset
\* (one OpenEx, before anything else), and what it returns is determined by
\* the layers and features its own dataset yielded under its own options.
C24_NoStateAcrossCalls ==
    (caller = "parse" /\ Len(prior) > 0) =>
        /\ pc = "open" =>
              /\ dataset = NoDataset
              /\ layers = << >>
              /\ all_features = << >>
              /\ calls = << >>
        /\ pc # "open" =>
              /\ Len(calls) >= 1
              /\ calls[1].op = "OpenEx"
              /\ NumberOf("OpenEx", calls) = 1
        /\ pc \in {"layer", "iterate"} => Len(all_features) = YieldedBefore(li)
        /\ pc = "returned" => result = Returned(ExpectedFrom(1))
        /\ pc = "raised" => result = Raised(exc) /\ exc # NoExc

C24_Witness ==
    /\ caller = "parse"
    /\ prior = <<"returned">>
    /\ pc = "returned"
    /\ Len(layers) = 1
    /\ Len(result.features) = 1

\* The installation commands run so far.
InstallsRun == SelectSeq(inst.cmds, LAMBDA c : c.role = "install")

\* Whether method name of the installer is marked manual.
IsManual(name) ==
    \E k \in 1..Len(inst.methods) :
       inst.methods[k].name = name /\ inst.methods[k].command.kind = "manual"

\* C26: run returns True only if a functional installation was detected up
\* front, no command having been run, or an installation command succeeded
\* and the verification after it passed; when no available method is
\* requested the methods are tried in their listed order, stopping at the
\* first that succeeds; a manual method never runs a command and never
\* counts as success.
C26_InstallerRunResult ==
    caller = "installer" =>
        /\ inst.ret = <<TRUE>> =>
              \/ inst.existing /\ inst.cmds = << >> /\ inst.tried = << >>
              \/ /\ ~inst.existing
                 /\ InstallsRun # << >>
                 /\ InstallsRun[Len(InstallsRun)].outcome = "ok"
                 /\ inst.tried[Len(inst.tried)].ok
                 /\ inst.verified = <<TRUE>>
        /\ inst.existing => inst.cmds = << >> /\ (pc = "done" /\ inst.ret = <<TRUE>>)
        /\ ~PreferredAvailable(inst) =>
              /\ \A a, b \in 1..Len(inst.tried) :
                    a < b => inst.tried[a].idx < inst.tried[b].idx
              /\ \A a \in 1..(Len(inst.tried) - 1) : ~inst.tried[a].ok
              /\ (inst.tried # << >> /\ inst.tried[Len(inst.tried)].ok) =>
                    pc \in {"verify", "done"}
        /\ PreferredAvailable(inst) =>
              /\ Len(inst.tried) <= 1
              /\ \A a \in 1..Len(inst.tried) : inst.tried[a].method = inst.preferred
        /\ \A a \in 1..Len(inst.tried) :
              IsManual(inst.tried[a].method) => ~inst.tried[a].ok
        /\ \A c \in 1..Len(inst.cmds) : ~IsManual(inst.cmds[c].method)
        /\ \A a \in 1..Len(inst.tried) :
              inst.tried[a].ok =>
                 \E c \in 1..Len(inst.cmds) :
                    /\ inst.cmds[c].method = inst.tried[a].method
                    /\ inst.cmds[c].role = "install"
                    /\ inst.cmds[c].outcome = "ok"

C26_Witness ==
    /\ caller = "installer"
    /\ pc = "done"
    /\ inst.ret = <<TRUE>>
    /\ ~inst.existing
    /\ inst.preferred = ""
    /\ Len(inst.methods) = 2
    /\ Len(inst.tried) = 2
    /\ inst.tried[1].method = "apt" /\ ~inst.tried[1].ok
    /\ inst.tried[2].method = "conda" /\ inst.tried[2].ok

====
